---- MODULE Spec2Model ----
(***************************************************************************)
(* F1 Stats API (src/main.py): POST /query turns a natural-language         *)
(* question into SQL with an LLM, validates the SQL with three pattern      *)
(* checks, runs it on a pooled PostgreSQL connection and answers with JSON. *)
(*                                                                         *)
(* Text is modelled as a sequence of one-character strings, so that         *)
(* lower(), strip(), "x in s" and the regular expressions are computed on   *)
(* the characters as Python computes them. The characters are those of      *)
(* ASCII and the whitespace of Unicode; a character that a TLA+ string      *)
(* cannot hold is written as its code point, "U+000B".                      *)
(*                                                                         *)
(* Three specifications:                                                    *)
(*   Spec           the service: startup, the get_rate_limiter dependency,  *)
(*                  the run_query handler, the exception handler, shutdown. *)
(*   SpecLimiter    the service with each client's requests counted over    *)
(*                  the rolling window of the rate limit.                   *)
(*   SpecValidator  the three validator tests of run_query applied, as pure *)
(*                  functions, to every candidate string of a bounded set.  *)
(***************************************************************************)
EXTENDS Integers, Sequences, FiniteSets

\* ------------------------------------------------------------------ bounds
NumReq == 2        \* request slots in flight at once
MaxArrivals == 11  \* requests of one client counted in one window (SpecLimiter)
MaxWords == 4      \* words per candidate string of SpecValidator

\* ------------------------------------------------------- program constants
maxconn == 10      \* pool.SimpleConnectionPool(maxconn=10)
times == 10        \* RateLimiter(times=10, seconds=60)

\* -------------------------------------------------------------- characters
ascii_lowercase == <<"a","b","c","d","e","f","g","h","i","j","k","l","m","n","o","p","q","r","s","t","u","v","w","x","y","z">>
ascii_uppercase == <<"A","B","C","D","E","F","G","H","I","J","K","L","M","N","O","P","Q","R","S","T","U","V","W","X","Y","Z">>
digits == <<"0","1","2","3","4","5","6","7","8","9">>

Range(f) == {f[i] : i \in DOMAIN f}

\* The characters for which str.isspace() holds: what \s matches and what
\* str.strip() removes.
Whitespace ==
  { " ", "\t", "\n", "\r", "\f", "U+000B", "U+001C", "U+001D", "U+001E", "U+001F",
    "U+0085", "U+00A0", "U+1680", "U+2000", "U+2001", "U+2002", "U+2003", "U+2004",
    "U+2005", "U+2006", "U+2007", "U+2008", "U+2009", "U+200A", "U+2028", "U+2029",
    "U+202F", "U+205F", "U+3000" }

IsSpace(c) == c \in Whitespace

\* What \w matches: a letter, a digit or the underscore.
WordChars == Range(ascii_lowercase) \cup Range(ascii_uppercase) \cup Range(digits) \cup {"_"}

IsWordChar(c) == c \in WordChars

\* The lower-case letter of each upper-case letter.
LowerOf ==
  [c \in Range(ascii_uppercase) |->
     ascii_lowercase[CHOOSE i \in 1..26 : ascii_uppercase[i] = c]]

\* str.lower() on one character.
ToLower(c) == IF c \in DOMAIN LowerOf THEN LowerOf[c] ELSE c

\* str.lower()
Lower(s) == [i \in 1..Len(s) |-> ToLower(s[i])]

\* str.strip(): the text without its leading and trailing whitespace.
Strip(s) ==
  LET keep == {i \in 1..Len(s) : ~IsSpace(s[i])}
  IN IF keep = {} THEN <<>>
     ELSE LET lo == CHOOSE i \in keep : \A j \in keep : i <= j
              hi == CHOOSE i \in keep : \A j \in keep : j <= i
          IN SubSeq(s, lo, hi)

\* The places where w occurs in s.
Occurrences(s, w) ==
  {i \in 1..(Len(s) - Len(w) + 1) : \A k \in 1..Len(w) : s[i + k - 1] = w[k]}

\* Python's "w in s" on strings.
Contains(s, w) ==
  \E i \in 1..(Len(s) - Len(w) + 1) : \A k \in 1..Len(w) : s[i + k - 1] = w[k]

\* ------------------------------------------------------------------- words
W_select == <<"s","e","l","e","c","t">>
W_SELECT == <<"S","E","L","E","C","T">>
W_star == <<"*">>
W_from == <<"f","r","o","m">>
W_join == <<"j","o","i","n">>
W_drivers == <<"d","r","i","v","e","r","s">>
W_races == <<"r","a","c","e","s">>
W_results == <<"r","e","s","u","l","t","s">>
W_circuits == <<"c","i","r","c","u","i","t","s">>
W_constructors == <<"c","o","n","s","t","r","u","c","t","o","r","s">>
W_users == <<"u","s","e","r","s">>
W_updated_at == <<"u","p","d","a","t","e","d","_","a","t">>
W_update == <<"u","p","d","a","t","e">>
W_UPDATE == <<"U","P","D","A","T","E">>
W_union == <<"u","n","i","o","n">>
W_into == <<"i","n","t","o">>
W_drop == <<"d","r","o","p">>
W_DROP == <<"D","R","O","P">>
W_delete == <<"d","e","l","e","t","e">>
W_truncate == <<"t","r","u","n","c","a","t","e">>
W_alter == <<"a","l","t","e","r">>
W_insert == <<"i","n","s","e","r","t">>
W_create == <<"c","r","e","a","t","e">>
W_exec == <<"e","x","e","c">>
W_table == <<"t","a","b","l","e">>
W_label == <<"S","Q","L",":">>
\* The backquote, which a TLA+ string cannot hold, is the character "BQ".
W_fence == <<"BQ","BQ","BQ">>
W_sql == <<"s","q","l">>
W_who == <<"w","h","o","?">>

\* The words joined by single spaces.
RECURSIVE Join(_)
Join(ws) ==
  IF Len(ws) = 0 THEN <<>>
  ELSE IF Len(ws) = 1 THEN ws[1]
  ELSE ws[1] \o <<" ">> \o Join(Tail(ws))

\* ---------------------------------------------------- run_query: validator
\* re.match(r"^\s*SELECT\b", s), no flags: leading whitespace, then the six
\* upper-case letters, then a word boundary.
ReMatchSelect(s) ==
  LET lead == {i \in 0..Len(s) : \A j \in 1..i : IsSpace(s[j])}
      k == CHOOSE i \in lead : \A j \in lead : j <= i
  IN /\ Len(s) >= k + 6
     /\ SubSeq(s, k + 1, k + 6) = W_SELECT
     /\ (Len(s) = k + 6 \/ ~IsWordChar(s[k + 7]))

dangerous_keywords == {W_drop, W_delete, W_truncate, W_alter, W_insert, W_update}

allowed_tables == {W_circuits, W_constructors, W_drivers, W_races, W_results}

\* Line 245: the test is made on sql_lower.
IsSelect(sql_query) == ReMatchSelect(Lower(sql_query))

\* Line 255: any(keyword in sql_lower for keyword in dangerous_keywords)
HasDangerousKeyword(sql_query) ==
  \E keyword \in dangerous_keywords : Contains(Lower(sql_query), keyword)

\* Line 265: any(table in sql_lower for table in allowed_tables)
HasAllowedTable(sql_query) ==
  \E table \in allowed_tables : Contains(Lower(sql_query), table)

\* ------------------------------------------------------ generate_sql_query
\* sql_query.split("SQL:")[-1]: the text after the last label, the whole
\* text when there is none.
SplitLast(s, w) ==
  LET occ == Occurrences(s, w)
  IN IF occ = {} THEN s
     ELSE LET last == CHOOSE i \in occ : \A j \in occ : j <= i
          IN SubSeq(s, last + Len(w), Len(s))

\* Where the group of ```(?:sql)?(.*?)``` starts for a fence opening at i.
GroupStart(s, i) ==
  IF i + 5 <= Len(s) /\ SubSeq(s, i + 3, i + 5) = W_sql THEN i + 6 ELSE i + 3

\* re.search(r"```(?:sql)?(.*?)```", s, re.DOTALL): the leftmost opening
\* fence that has a closing fence after it, and the nearest closing fence.
\* found is FALSE where Python gets None.
FenceSearch(s) ==
  LET occ == Occurrences(s, W_fence)
      opens == {i \in occ : \E j \in occ : j >= GroupStart(s, i)}
  IN IF opens = {} THEN [found |-> FALSE, group |-> <<>>]
     ELSE LET i == CHOOSE a \in opens : \A b \in opens : a <= b
              closes == {j \in occ : j >= GroupStart(s, i)}
              j == CHOOSE a \in closes : \A b \in closes : a <= b
          IN [found |-> TRUE, group |-> SubSeq(s, GroupStart(s, i), j - 1)]

\* Lines 183-190: the clean-up of the LLM's text. <<>> stands for both the
\* empty string and None: line 192 treats them alike.
CleanUp(text) ==
  LET unlabelled == Strip(SplitLast(Strip(text), W_label))
  IN IF Contains(unlabelled, W_fence)
     THEN LET m == FenceSearch(unlabelled)
          IN IF m.found THEN Strip(m.group) ELSE <<>>
     ELSE unlabelled

\* An exception in flight: its class, and for an HTTPException its status
\* code and detail.
Exc(type, status_code, message, error) ==
  [type |-> type, status_code |-> status_code, message |-> message, error |-> error]

NoExc == Exc("none", 0, "", "")

\* generate_sql_query, given what the LLM call did: llm.ok is FALSE when the
\* client raised, llm.text is response.text.
generate_sql_query(llm) ==
  LET failed(e) == [sql |-> <<>>, exc |-> Exc("HTTPException", 500, "Failed to generate SQL query", e)]
  IN IF ~llm.ok THEN failed("LLM service error")
     ELSE IF llm.text = <<>> THEN failed("No response from LLM")
     ELSE IF CleanUp(llm.text) = <<>> THEN failed("Failed to generate valid SQL query")
     ELSE [sql |-> CleanUp(llm.text), exc |-> NoExc]

\* ---------------------------------------------------- run_query: the checks
\* ValidateQuery with the statement-shape test left out.
ValidateQueryNoShape(sql_query) ==
  IF HasDangerousKeyword(sql_query)
  THEN Exc("HTTPException", 400, "Unsafe SQL query detected", "Security violation")
  ELSE IF ~HasAllowedTable(sql_query)
  THEN Exc("HTTPException", 400, "Invalid table referenced", "Security violation")
  ELSE Exc("none", 0, "", "")

\* Lines 243-272: the first test that fails raises; NoExc when none does.
ValidateQuery(sql_query) ==
  IF ~IsSelect(sql_query)
  THEN Exc("HTTPException", 400, "Only SELECT queries are allowed", "Security violation")
  ELSE IF HasDangerousKeyword(sql_query)
  THEN Exc("HTTPException", 400, "Unsafe SQL query detected", "Security violation")
  ELSE IF ~HasAllowedTable(sql_query)
  THEN Exc("HTTPException", 400, "Invalid table referenced", "Security violation")
  ELSE NoExc

\* ------------------------------------------- run_query: the execution block
\* What the database does to one request.
DbOutcomes == {"ok", "connect_fails", "cursor_fails", "execute_fails", "fetch_fails", "format_fails"}

\* get_db_connection with `used` connections checked out: SimpleConnectionPool
\* raises PoolError when all maxconn connections are out, and opening a new
\* connection may fail; either is turned into an HTTPException.
get_db_connection(db, used, closed) ==
  IF closed
  THEN Exc("HTTPException", 500, "Database connection error", "connection pool is closed")
  ELSE IF used >= maxconn
  THEN Exc("HTTPException", 500, "Database connection error", "connection pool exhausted")
  ELSE IF db = "connect_fails"
  THEN Exc("HTTPException", 500, "Database connection error", "could not connect")
  ELSE NoExc

\* Lines 275-291. exc is the exception that leaves the block, used the
\* connections checked out afterwards, executes the calls of cur.execute.
\* When conn.cursor() raises, `cur` is unbound in the finally clause, so
\* cur.close() raises UnboundLocalError and putconn is not reached.
ExecuteBlock(db, used, closed) ==
  IF get_db_connection(db, used, closed) # NoExc
  THEN [exc |-> get_db_connection(db, used, closed), used |-> used, executes |-> 0, took |-> FALSE]
  ELSE IF db = "cursor_fails"
  THEN [exc |-> Exc("UnboundLocalError", 0, "", "cur"), used |-> used + 1, executes |-> 0, took |-> TRUE]
  ELSE IF db \in {"execute_fails", "fetch_fails"}
  THEN [exc |-> Exc("psycopg2.Error", 0, "", db), used |-> used, executes |-> 1, took |-> TRUE]
  ELSE IF db = "format_fails"
  THEN [exc |-> Exc("TypeError", 0, "", db), used |-> used, executes |-> 1, took |-> TRUE]
  ELSE [exc |-> NoExc, used |-> used, executes |-> 1, took |-> TRUE]

\* Lines 293-308: what leaves run_query for an exception raised in its try
\* block. An HTTPException is an Exception, so the second clause takes it.
ExceptClauses(exc) ==
  IF exc.type = "none" THEN NoExc
  ELSE IF exc.type = "psycopg2.Error"
  THEN Exc("HTTPException", 400, "Database error", exc.error)
  ELSE Exc("HTTPException", 500, "Internal server error", exc.message)

\* http_exception_handler: the status and the message of the answer.
http_exception_handler(exc) ==
  [status |-> exc.status_code, message |-> exc.message]

\* The answer to a request whose handler ended with `exc` leaving it.
Answer(exc) ==
  IF exc = NoExc THEN [status |-> 200, message |-> "OK"]
  ELSE http_exception_handler(exc)

\* ------------------------------------------------------------------- state
VARIABLES
  started,     \* the startup event has run
  redis,       \* FastAPILimiter._redis is set: FastAPILimiter.init succeeded
  req,         \* the request in each slot: where it is and what happened to it
  used,        \* connections checked out of connection_pool
  pool_closed, \* connection_pool.closed: closeall() has run
  arrivals,    \* per client, its requests of the last 60 seconds
  candidate,   \* SpecValidator: the string under test
  verdict      \* SpecValidator: what each test did with it: "pass" or "raise"

vars == <<started, redis, req, used, pool_closed, arrivals, candidate, verdict>>

Req == 1..NumReq
Clients == {"a", "b"}

\* request.query: empty, whitespace only, a question.
Queries == {<<>>, <<" ", "\t", "\r", "\n">>, W_who}

\* A slot with no request in it.
Idle ==
  [pc |-> "idle", query |-> <<>>, client |-> "", over |-> FALSE, rate_limit |-> "None",
   sql |-> <<>>, inner |-> NoExc, status |-> 0, message |-> "",
   generates |-> 0, executes |-> 0, took |-> FALSE]

\* What the LLM may answer.
LLMTexts ==
  { Join(<<W_SELECT, W_star, W_from, W_drivers>>),
    Join(<<W_select, W_star, W_from, W_drivers>>),
    W_fence \o W_sql \o <<"\r", "\n">> \o Join(<<W_SELECT, W_star, W_from, W_races>>)
      \o <<"\r", "\n">> \o W_fence,
    W_label \o <<" ">> \o Join(<<W_select, W_star, W_from, W_results>>),
    W_fence \o Join(<<W_select, W_star, W_from, W_drivers>>),
    Join(<<W_DROP, W_table, W_drivers>>),
    <<"\r">> \o Join(<<W_select, W_star, W_from, W_users>>) \o <<"\f", "U+00A0">>,
    Join(<<W_select, W_updated_at, W_from, W_drivers>>),
    Join(<<W_select, W_star, W_from, W_drivers, W_union, W_select, W_star, W_from, W_users>>),
    <<" ", "\r", "\n">> }

LLMOutcomes ==
  {[ok |-> FALSE, text |-> <<>>], [ok |-> TRUE, text |-> <<>>]}
    \cup {[ok |-> TRUE, text |-> t] : t \in LLMTexts}

\* --------------------------------------------------------------- run_query
\* What generate_sql_query returns or raises, over the answers of the LLM.
Generated == {generate_sql_query(llm) : llm \in LLMOutcomes}

\* The try block of run_query (lines 229-291) for one request, gen being the
\* outcome of its call of generate_sql_query: the exception raised in the
\* block, the SQL generated, the calls made and the pool afterwards.
TryBlock(query, gen, db, inUse, closed) ==
  LET none == [sql |-> <<>>, inner |-> NoExc, generates |-> 0, executes |-> 0,
               took |-> FALSE, used |-> inUse]
  IN IF Strip(query) = <<>>
     THEN [none EXCEPT !.inner = Exc("HTTPException", 400, "Query cannot be empty", "Invalid input")]
     ELSE IF gen.exc # NoExc
     THEN [none EXCEPT !.inner = gen.exc, !.generates = 1]
     ELSE LET rejected == ValidateQuery(gen.sql)
              run == ExecuteBlock(db, inUse, closed)
          IN IF rejected # NoExc
             THEN [none EXCEPT !.inner = rejected, !.sql = gen.sql, !.generates = 1]
             ELSE [sql |-> gen.sql, inner |-> run.exc, generates |-> 1,
                   executes |-> run.executes, took |-> run.took, used |-> run.used]

\* The request of slot r after its handler ran with outcome `out`.
Finished(r, out) ==
  [req[r] EXCEPT !.pc = "done", !.sql = out.sql, !.inner = out.inner,
                 !.status = Answer(ExceptClauses(out.inner)).status,
                 !.message = Answer(ExceptClauses(out.inner)).message,
                 !.generates = out.generates, !.executes = out.executes,
                 !.took = out.took]

\* ----------------------------------------------------------------- actions
\* startup: FastAPILimiter.init succeeds or raises; the service starts
\* either way.
startup(ok) ==
  /\ ~started
  /\ started' = TRUE
  /\ redis' = ok
  /\ UNCHANGED <<req, used, pool_closed, arrivals, candidate, verdict>>

\* A request with the body {"query": q} arrives in slot r.
receive(r, q) ==
  /\ started
  /\ req[r].pc = "idle"
  /\ req' = [req EXCEPT ![r] = [Idle EXCEPT !.pc = "received", !.query = q]]
  /\ UNCHANGED <<started, redis, used, pool_closed, arrivals, candidate, verdict>>

\* get_rate_limiter, the dependency of run_query: its value is handed to the
\* handler as the parameter rate_limit, which the handler never uses.
get_rate_limiter(r) ==
  /\ req[r].pc = "received"
  /\ req' = [req EXCEPT ![r].pc = "ready",
                        ![r].rate_limit = IF redis THEN "RateLimiter" ELSE "None"]
  /\ UNCHANGED <<started, redis, used, pool_closed, arrivals, candidate, verdict>>

\* run_query: the handler has no await in it, so it runs to its end in one
\* step of the event loop.
run_query(r, gen, db) ==
  /\ req[r].pc = "ready"
  /\ LET out == TryBlock(req[r].query, gen, db, used, pool_closed)
     IN /\ req' = [req EXCEPT ![r] = Finished(r, out)]
        /\ used' = out.used
  /\ UNCHANGED <<started, redis, pool_closed, arrivals, candidate, verdict>>

\* The answer is sent and the slot is free again.
respond(r) ==
  /\ req[r].pc = "done"
  /\ req' = [req EXCEPT ![r] = Idle]
  /\ UNCHANGED <<started, redis, used, pool_closed, arrivals, candidate, verdict>>

\* shutdown: connection_pool.closeall() closes every connection and the
\* pool; the connections that were out stay counted as out. (On a pool that
\* is closed already closeall raises and nothing changes.)
shutdown ==
  /\ started
  /\ ~pool_closed
  /\ pool_closed' = TRUE
  /\ UNCHANGED <<started, redis, req, used, arrivals, candidate, verdict>>

Init ==
  /\ started = FALSE
  /\ redis = FALSE
  /\ req = [r \in Req |-> Idle]
  /\ used = 0
  /\ pool_closed = FALSE
  /\ arrivals = [c \in Clients |-> 0]
  /\ candidate = <<>>
  /\ verdict = [shape |-> "unset", keyword |-> "unset", table |-> "unset"]

Next ==
  \/ \E ok \in BOOLEAN : startup(ok)
  \/ \E r \in Req, q \in Queries : receive(r, q)
  \/ \E r \in Req : get_rate_limiter(r)
  \/ \E r \in Req, gen \in Generated, db \in DbOutcomes : run_query(r, gen, db)
  \/ \E r \in Req : respond(r)
  \/ shutdown

Spec == Init /\ [][Next]_vars

\* ------------------------------------------------------------ SpecLimiter
\* The service with the requests of each client counted over the rolling
\* window of 60 seconds, to state what a limit of `times` requests a window
\* would refuse. The handler is the same; its inputs are cut down to an
\* empty and a non-empty question, one answer of the LLM and one failure.
WindowQueries == {<<>>, W_who}

WindowGenerated ==
  { generate_sql_query([ok |-> TRUE, text |-> Join(<<W_select, W_star, W_from, W_drivers>>)]),
    generate_sql_query([ok |-> FALSE, text |-> <<>>]) }

\* A request from client c arrives in slot r; `over` records that the client
\* already has `times` requests or more in the window.
arrive(r, c, q) ==
  /\ started
  /\ req[r].pc = "idle"
  /\ arrivals[c] < MaxArrivals
  /\ req' = [req EXCEPT ![r] = [Idle EXCEPT !.pc = "received", !.query = q, !.client = c,
                                            !.over = (arrivals[c] >= times)]]
  /\ arrivals' = [arrivals EXCEPT ![c] = @ + 1]
  /\ UNCHANGED <<started, redis, used, pool_closed, candidate, verdict>>

\* Time passes: the oldest request of client c leaves the window.
window_expire(c) ==
  /\ arrivals[c] > 0
  /\ arrivals' = [arrivals EXCEPT ![c] = @ - 1]
  /\ UNCHANGED <<started, redis, req, used, pool_closed, candidate, verdict>>

NextLimiter ==
  \/ \E ok \in BOOLEAN : startup(ok)
  \/ \E r \in Req, c \in Clients, q \in WindowQueries : arrive(r, c, q)
  \/ \E r \in Req : get_rate_limiter(r)
  \/ \E r \in Req, gen \in WindowGenerated : run_query(r, gen, "ok")
  \/ \E r \in Req : respond(r)
  \/ \E c \in Clients : window_expire(c)
  \/ shutdown

SpecLimiter == Init /\ [][NextLimiter]_vars

\* ---------------------------------------------------------- SpecValidator
\* The three tests of the validator, each applied on its own to a candidate
\* string: up to MaxWords words of the vocabulary, single spaces between.
Vocabulary ==
  { W_select, W_SELECT, W_star, W_from, W_join, W_drivers, W_races, W_users,
    W_updated_at, W_UPDATE, W_union, W_into, W_drop, W_create }

Candidates(maxWords) ==
  {Join(ws) : ws \in UNION {[1..n -> Vocabulary] : n \in 1..maxWords}}

InitValidator ==
  /\ started = FALSE
  /\ redis = FALSE
  /\ req = [r \in Req |-> Idle]
  /\ used = 0
  /\ pool_closed = FALSE
  /\ arrivals = [c \in Clients |-> 0]
  /\ candidate \in Candidates(MaxWords)
  /\ verdict = [shape |-> "unset", keyword |-> "unset", table |-> "unset"]

\* Line 245: the statement-shape test raises or lets the candidate pass.
check_shape ==
  /\ verdict.shape = "unset"
  /\ verdict' = [verdict EXCEPT !.shape = IF IsSelect(candidate) THEN "pass" ELSE "raise"]
  /\ UNCHANGED <<started, redis, req, used, pool_closed, arrivals, candidate>>

\* Line 255: the keyword test raises or lets the candidate pass.
check_keywords ==
  /\ verdict.keyword = "unset"
  /\ verdict' = [verdict EXCEPT !.keyword = IF HasDangerousKeyword(candidate) THEN "raise" ELSE "pass"]
  /\ UNCHANGED <<started, redis, req, used, pool_closed, arrivals, candidate>>

\* Line 265: the table test raises or lets the candidate pass.
check_tables ==
  /\ verdict.table = "unset"
  /\ verdict' = [verdict EXCEPT !.table = IF HasAllowedTable(candidate) THEN "pass" ELSE "raise"]
  /\ UNCHANGED <<started, redis, req, used, pool_closed, arrivals, candidate>>

NextValidator == check_shape \/ check_keywords \/ check_tables

SpecValidator == InitValidator /\ [][NextValidator]_vars

\* ------------------------------------------------- the specification's terms
\* The ten forbidden keywords of the specification.
ForbiddenWords ==
  { W_drop, W_delete, W_truncate, W_alter, W_insert, W_update, W_create, W_exec,
    W_union, W_into }

\* The places where w stands in s as a whole word, in any letter case.
WordOccurrences(s, w) ==
  {i \in Occurrences(Lower(s), w) :
     /\ (i = 1 \/ ~IsWordChar(s[i - 1]))
     /\ (i + Len(w) - 1 = Len(s) \/ ~IsWordChar(s[i + Len(w)]))}

ContainsWord(s, w) == WordOccurrences(s, w) # {}

\* The trimmed string begins with the keyword SELECT in any letter case.
BeginsWithSelect(s) ==
  LET t == Lower(Strip(s))
  IN /\ Len(t) >= 6
     /\ SubSeq(t, 1, 6) = W_select
     /\ (Len(t) = 6 \/ ~IsWordChar(t[7]))

\* The identifier that starts at the first non-blank character from place i
\* on, in lower case; <<>> when there is none.
IdentifierFrom(s, i) ==
  LET starts == {a \in i..Len(s) : ~IsSpace(s[a]) /\ \A b \in i..(a - 1) : IsSpace(s[b])}
  IN IF starts = {} THEN <<>>
     ELSE LET a == CHOOSE x \in starts : TRUE
              ends == {e \in a..Len(s) : \A b \in a..e : ~IsSpace(s[b])}
              e == CHOOSE x \in ends : \A y \in ends : y <= x
          IN Lower(SubSeq(s, a, e))

\* The identifiers that follow FROM or JOIN.
Targets(s) ==
  {IdentifierFrom(s, i + 4) : i \in WordOccurrences(s, W_from) \cup WordOccurrences(s, W_join)}
    \ {<<>>}

\* The validator's three messages.
ValidatorMessages ==
  {"Only SELECT queries are allowed", "Unsafe SQL query detected", "Invalid table referenced"}

\* One of the three tests of lines 245-272 fails on the string.
Rejected(sql_query) ==
  ~IsSelect(sql_query) \/ HasDangerousKeyword(sql_query) \/ ~HasAllowedTable(sql_query)

\* A request that was answered and whose generator produced candidate SQL.
HasCandidate(r) == req[r].pc = "done" /\ req[r].sql # <<>>

\* Line 245 lets no generated string through: under Spec the execution
\* block is never entered.
ShapeNeverHolds == \A gen \in Generated : gen.exc = NoExc => ~IsSelect(gen.sql)

\* ------------------------------------------------------------------ claims
\* C1: a request whose candidate SQL fails any of the validator's three
\* tests makes no database call: it takes no connection from the pool and
\* cur.execute is never invoked for it.
C1_RejectedNeverReachesDatabase ==
  \A r \in Req :
    HasCandidate(r) /\ Rejected(req[r].sql) => req[r].executes = 0 /\ ~req[r].took

\* C1, its case: a request was answered whose candidate the validator
\* rejected, with no database call made.
C1_Witness ==
  \E r \in Req :
    /\ HasCandidate(r) /\ Rejected(req[r].sql)
    /\ req[r].inner.message \in ValidatorMessages
    /\ req[r].executes = 0 /\ ~req[r].took

\* C2: a candidate that begins (trimmed, any letter case) with SELECT, holds
\* no forbidden keyword and names only allowed tables after FROM and JOIN is
\* accepted by the validator: the request is not failed by one of its tests.
C2_ValidSelectAccepted ==
  \A r \in Req :
    ( /\ HasCandidate(r)
      /\ BeginsWithSelect(req[r].sql)
      /\ \A w \in ForbiddenWords : ~ContainsWord(req[r].sql, w)
      /\ Targets(req[r].sql) # {}
      /\ Targets(req[r].sql) \subseteq allowed_tables )
    => req[r].inner.message \notin ValidatorMessages

\* C3: the forbidden-keyword test fails every candidate that holds, as a
\* whole word in any letter case, one of the ten forbidden keywords.
C3_ForbiddenWordRejected ==
  ( /\ verdict.keyword # "unset"
    /\ \E w \in ForbiddenWords : ContainsWord(candidate, w) )
  => verdict.keyword = "raise"

\* C4: the table test rejects every candidate in which an identifier after
\* FROM or JOIN is not one of the five allowed tables, also when the
\* candidate names allowed tables as well.
C4_UnauthorizedTableRejected ==
  ( /\ verdict.table # "unset"
    /\ \E t \in Targets(candidate) : t \notin allowed_tables )
  => verdict.table = "raise"

\* C6: a request the validator rejects is answered with status 400 and the
\* message of the rule it broke, never with status 500.
C6_RejectionIsClientError ==
  \A r \in Req :
    req[r].pc = "done" /\ req[r].inner.message \in ValidatorMessages
    => req[r].status = 400 /\ req[r].message = req[r].inner.message

\* C7: a request whose query is empty or whitespace only is answered with
\* status 400 and the generator is never invoked for it.
C7_EmptyQueryIsClientError ==
  \A r \in Req :
    req[r].pc = "done" /\ Strip(req[r].query) = <<>>
    => req[r].status = 400 /\ req[r].generates = 0

\* C9: the forbidden-keyword test does not reject a candidate in which a
\* forbidden keyword occurs only inside a longer identifier and never as a
\* whole word.
C9_SubstringNotRejected ==
  ( /\ verdict.keyword # "unset"
    /\ \E w \in ForbiddenWords : Contains(Lower(candidate), w)
    /\ \A w \in ForbiddenWords : ~ContainsWord(candidate, w) )
  => verdict.keyword = "pass"

\* C10: with the rate-limit backend initialised at startup, a request that
\* arrives when its client already has `times` requests in the window is
\* refused and reaches neither generation nor execution; with the backend
\* unreachable at startup no request is refused.
C10_EleventhRequestRefused ==
  \A r \in Req :
    req[r].pc = "done" =>
      /\ (redis /\ req[r].over => req[r].generates = 0 /\ req[r].executes = 0)
      /\ (~redis /\ Strip(req[r].query) # <<>> => req[r].generates = 1)

====
